---- MODULE Spec2Model ----
(***************************************************************************)
(* Model of the error-normalisation middleware                             *)
(* (saas/backend/common/middlewares.py) and of the four grant/revoke       *)
(* endpoints (saas/backend/api/authorization/views/resource.py) of         *)
(* bk-iam-saas.                                                            *)
(*                                                                         *)
(* One worker thread serves requests one after the other.  A request runs  *)
(* RequestProvider.__call__ (entry), AppExceptionMiddleware.process_request*)
(* , the view, AppExceptionMiddleware.process_exception when the view      *)
(* raised, and RequestProvider.__call__ (exit).                            *)
(***************************************************************************)
EXTENDS Integers, Sequences, FiniteSets, TLC

VARIABLES
    pc,             \* position of the worker in the request it serves
    request,        \* the request being served
    upstream,       \* deployment: does a middleware ahead of ours activate the caller's locale
    language,       \* django.utils.translation: the thread's active language
    local_request,  \* backend.common.local: local.request, the request object itself
    exc,            \* the exception the view raised
    error,          \* process_exception's local `error`
    response,       \* the response handed back to the caller
    events,         \* side effects of the current request, in program order
    data,           \* the view's serializer.validated_data
    store_calls,    \* the policy store's calls made for the current request
    ol_pc,          \* _one_line_error taken alone: position
    ol_exc,         \* _one_line_error taken alone: its argument
    ol_result       \* _one_line_error taken alone: its result

vars == <<pc, request, upstream, language, local_request, exc, error, response,
          events, data, store_calls, ol_pc, ol_exc, ol_result>>

mwVars == <<pc, request, upstream, language, local_request, exc, error, response,
            events, data, store_calls>>

olVars == <<ol_pc, ol_exc, ol_result>>

(***************************************************************************)
(* Bounds of the model.                                                    *)
(***************************************************************************)
\* deepest nesting of a validation detail handed to _one_line_error alone
MaxDepth == 4
\* most classes one raised exception is an instance of
MaxBases == 2
\* most actions in one batch request
MaxActions == 2

(***************************************************************************)
(* Validation details: exc.detail of a rest_framework ValidationError.     *)
(* A detail is a list of messages or an ordered dict from keys to          *)
(* messages, lists or dicts.                                               *)
(***************************************************************************)
Msg(s) == [t |-> "msg", s |-> s]

List(items) == [t |-> "list", items |-> items]

Item(k, v) == [k |-> k, v |-> v]

Dict(items) == [t |-> "dict", items |-> items]

Raised(name) == [t |-> "raise", exc |-> name]

\* rest_framework.settings.api_settings.NON_FIELD_ERRORS_KEY
NON_FIELD_ERRORS_KEY == "non_field_errors"

(***************************************************************************)
(* Serializer context: exc.serializer.  A Serializer has fields; a         *)
(* ListField has a child; any other Field has neither.  Every bound field  *)
(* has a label.                                                            *)
(***************************************************************************)
NoSerializer == [k |-> "none"]

Field(label) == [k |-> "Field", label |-> label]

ListField(label, child) == [k |-> "ListField", label |-> label, child |-> child]

Serializer(label, fields) == [k |-> "Serializer", label |-> label, fields |-> fields]

\* ValidationError(detail): a bare message becomes a one-element list
ValidationError(detail) == IF detail.t = "msg" THEN List(<<detail>>) ELSE detail

(***************************************************************************)
(* str() of an error inside the f-string of _one_line_error, and           *)
(* json.dumps of a detail.  Messages are rendered by their text.           *)
(***************************************************************************)
RECURSIVE ReprItems(_, _)
RECURSIVE Repr(_)
Repr(d) ==
    CASE d.t = "msg"  -> "'" \o d.s \o "'"
      [] d.t = "list" -> "[" \o ReprItems(d.items, FALSE) \o "]"
      [] d.t = "dict" -> "{" \o ReprItems(d.items, TRUE) \o "}"

ReprItems(items, keyed) ==
    IF items = <<>> THEN ""
    ELSE LET head == IF keyed THEN "'" \o items[1].k \o "': " \o Repr(items[1].v)
                     ELSE Repr(items[1])
         IN IF Len(items) = 1 THEN head
            ELSE head \o ", " \o ReprItems(Tail(items), keyed)

Str(d) == IF d.t = "msg" THEN d.s ELSE Repr(d)

RECURSIVE JsonItems(_, _)
RECURSIVE json_dumps(_)
json_dumps(d) ==
    CASE d.t = "msg"  -> "\"" \o d.s \o "\""
      [] d.t = "list" -> "[" \o JsonItems(d.items, FALSE) \o "]"
      [] d.t = "dict" -> "{" \o JsonItems(d.items, TRUE) \o "}"

JsonItems(items, keyed) ==
    IF items = <<>> THEN ""
    ELSE LET head == IF keyed THEN "\"" \o items[1].k \o "\": " \o json_dumps(items[1].v)
                     ELSE json_dumps(items[1])
         IN IF Len(items) = 1 THEN head
            ELSE head \o ", " \o JsonItems(Tail(items), keyed)

(***************************************************************************)
(* _one_line_error(exc): exc is given by its detail and its serializer.    *)
(* The result is a message, a dict (a non-field error that is a dict) or   *)
(* a raised AttributeError (exc.serializer.fields of a field without       *)
(* fields).                                                                *)
(***************************************************************************)
\* exc.serializer.fields[key].label when the field is declared, else the key
LabelOrKey(serializer, key) ==
    IF key \in DOMAIN serializer.fields THEN serializer.fields[key].label ELSE key

RECURSIVE _one_line_error(_, _)
_one_line_error(detail, serializer) ==
    IF detail.t = "list" THEN detail.items[1]
    ELSE
    LET key     == detail.items[1].k
        first   == detail.items[1].v
        error1  == IF first.t = "list" THEN first.items[1] ELSE first
        nested  == first.t = "dict" /\ serializer.k # "none"
        inFields == serializer.k = "Serializer" /\ key \in DOMAIN serializer.fields
    IN  IF nested /\ inFields /\ serializer.fields[key].k = "ListField"
        THEN _one_line_error(ValidationError(first.items[1].v), serializer.fields[key].child)
        ELSE IF nested /\ inFields /\ serializer.fields[key].k = "Serializer"
        THEN _one_line_error(ValidationError(first), serializer.fields[key])
        ELSE IF nested /\ serializer.k = "ListField"
        THEN _one_line_error(ValidationError(detail.items[1].v), serializer.child)
        ELSE IF key = NON_FIELD_ERRORS_KEY THEN error1
        ELSE IF serializer.k = "none" THEN Msg(key \o ": " \o Str(error1))
        ELSE IF serializer.k # "Serializer" THEN Raised("AttributeError")
        ELSE Msg(LabelOrKey(serializer, key) \o ": " \o Str(error1))

(***************************************************************************)
(* _one_line_error taken alone, over every detail and serializer of the    *)
(* bounded sets below.                                                     *)
(***************************************************************************)
Keys == {"id", "resources", "0", NON_FIELD_ERRORS_KEY}

Messages == {"required", "blank"}

Leaves ==
    {Msg(m) : m \in Messages} \cup {List(<<Msg(m)>>) : m \in Messages}
        \cup {List(<<Msg("required"), Msg("blank")>>)}

RECURSIVE Dicts(_)
Dicts(n) ==
    IF n = 0 THEN {}
    ELSE {Dict(<<Item(k, v)>>) : k \in Keys, v \in Leaves \cup Dicts(n - 1)}
         \cup {Dict(<<Item(k, v), Item("name", List(<<Msg("blank")>>))>>) :
                  k \in Keys, v \in Leaves}

Details == {d \in Leaves : d.t = "list"} \cup Dicts(MaxDepth)

ScalarFields == {Field("Id"), Field("Resource ID")}

ChildSerializers == {Serializer("Resource", [id |-> f]) : f \in ScalarFields}

ListFields == {ListField("Resources", c) : c \in ScalarFields \cup ChildSerializers}

NestedListFields == {ListField("Paths", c) : c \in ListFields}

Serializers ==
    {NoSerializer} \cup ChildSerializers
        \cup {Serializer("", [resources |-> f]) :
                 f \in ScalarFields \cup ChildSerializers \cup ListFields
                          \cup NestedListFields}

OneLineInit ==
    /\ ol_pc = "call"
    /\ ol_exc \in [detail : Details, serializer : Serializers]
    /\ ol_result = Msg("")

OneLineCall ==
    /\ ol_pc = "call"
    /\ ol_result' = _one_line_error(ol_exc.detail, ol_exc.serializer)
    /\ ol_pc' = "returned"
    /\ UNCHANGED ol_exc
    /\ UNCHANGED mwVars

(***************************************************************************)
(* backend.common.error_codes: the stable codes, format() and as_json().   *)
(***************************************************************************)
error_codes ==
    [ UNAUTHORIZED       |-> [code |-> "UNAUTHORIZED", message |-> "user auth failed", status_code |-> 401],
      FORBIDDEN          |-> [code |-> "FORBIDDEN", message |-> "no permission", status_code |-> 403],
      NOT_FOUND_ERROR    |-> [code |-> "NOT_FOUND_ERROR", message |-> "not found", status_code |-> 404],
      METHOD_NOT_ALLOWED |-> [code |-> "METHOD_NOT_ALLOWED", message |-> "method not allowed", status_code |-> 405],
      JSON_FORMAT_ERROR  |-> [code |-> "JSON_FORMAT_ERROR", message |-> "json format error", status_code |-> 400],
      VALIDATE_ERROR     |-> [code |-> "VALIDATE_ERROR", message |-> "validate error", status_code |-> 400],
      INVALID_ARGS       |-> [code |-> "INVALID_ARGS", message |-> "invalid args", status_code |-> 400],
      CONFLICT_ERROR     |-> [code |-> "CONFLICT_ERROR", message |-> "conflict", status_code |-> 409],
      SYSTEM_ERROR       |-> [code |-> "SYSTEM_ERROR", message |-> "system error", status_code |-> 500] ]

\* CodeException.format(message=..., replace=...)
format(err, message, replace) ==
    [err EXCEPT !.message = IF replace THEN Str(message)
                            ELSE err.message \o ": " \o Str(message)]

\* CodeException.as_json()
as_json(err) == [code |-> err.code, message |-> err.message]

\* isinstance(error, ignore_errors)
is_ignored_error(err) ==
    err.code \in { error_codes.UNAUTHORIZED.code, error_codes.FORBIDDEN.code,
                   error_codes.NOT_FOUND_ERROR.code, error_codes.SYSTEM_ERROR.code }

\* rest_framework.status.HTTP_200_OK
HTTP_200_OK == 200

(***************************************************************************)
(* Requests.  A path is its sequence of "/" and segment tokens.            *)
(***************************************************************************)
OpenMarker == <<"/", "api", "/", "v1", "/", "open", "/">>

\* needle in path: a contiguous run of path equals needle
Contains(path, needle) ==
    \E i \in 1..(Len(path) - Len(needle) + 1) :
        SubSeq(path, i, i + Len(needle) - 1) = needle

AuthorizationPath(name) ==
    <<"/", "api", "/", "v1", "/", "open", "/", "authorization", "/", name, "/">>

Endpoints ==
    { [path |-> AuthorizationPath("instance"), view |-> "AuthInstanceView"],
      [path |-> AuthorizationPath("path"), view |-> "AuthPathView"],
      [path |-> AuthorizationPath("batch_instance"), view |-> "AuthBatchInstanceView"],
      [path |-> AuthorizationPath("batch_path"), view |-> "AuthBatchPathView"],
      [path |-> <<"/", "o", "/", "bk_iam", "/", "api", "/", "v1", "/", "open", "/", "systems", "/">>,
       view |-> "other"],
      [path |-> <<"/", "api", "/", "v1", "/", "web", "/", "policies", "/">>, view |-> "other"],
      [path |-> <<"/", "api", "/", "v1", "/", "open">>, view |-> "other"] }

\* DjangoLanguageEnum.EN.value
EN == "en"

\* settings.LANGUAGE_CODE: the language of a thread with no active translation
LANGUAGE_CODE == "zh-hans"

CallerLanguages == {"zh-hans", "en", "fr"}

Requests ==
    { [path |-> e.path, view |-> e.view, accept |-> l, LANGUAGE_CODE |-> "unset"] :
        e \in Endpoints, l \in CallerLanguages }

NoRequest == [path |-> <<>>, view |-> "none", accept |-> "none", LANGUAGE_CODE |-> "unset"]

\* translation.get_language()
get_language(lang) == IF lang = "None" THEN LANGUAGE_CODE ELSE lang

(***************************************************************************)
(* Exceptions a view raises.  classes: the classes, among those the        *)
(* middleware tests with isinstance, the exception is an instance of.      *)
(***************************************************************************)
TestedClasses ==
    { "Http404", "NotAuthenticated", "AuthenticationFailed", "PermissionDenied",
      "MethodNotAllowed", "ParseError", "ValidationError", "CodeException" }

ClassSets == {c \in SUBSET TestedClasses : Cardinality(c) <= MaxBases}

isinstance(e, classes) == e.classes \cap classes # {}

ExampleSerializer ==
    Serializer("", [resources |->
        ListField("Resources", Serializer("Resource", [id |-> Field("Resource ID")]))])

ExampleDetail ==
    Dict(<<Item("resources",
        Dict(<<Item("0", Dict(<<Item("id", List(<<Msg("required")>>))>>))>>))>>)

ValidationCases ==
    { [detail |-> List(<<Msg("invalid")>>), serializer |-> NoSerializer],
      [detail |-> Dict(<<Item("name", List(<<Msg("blank")>>)),
                         Item("id", List(<<Msg("required")>>))>>),
       serializer |-> NoSerializer],
      [detail |-> ExampleDetail, serializer |-> ExampleSerializer],
      [detail |-> Dict(<<Item(NON_FIELD_ERRORS_KEY, List(<<Msg("conflict")>>))>>),
       serializer |-> ExampleSerializer],
      [detail |-> Dict(<<Item("resources",
                      Dict(<<Item("0", Dict(<<Item("1", List(<<Msg("blank")>>))>>))>>))>>),
       serializer |-> Serializer("", [resources |->
                      ListField("Paths", ListField("Path", Field("Node")))])] }

PlainCases ==
    { [detail |-> Msg("Method PUT not allowed."), serializer |-> NoSerializer],
      [detail |-> Msg("JSON parse error - Expecting value"), serializer |-> NoSerializer] }

\* the CodeExceptions views raise: a stable code, possibly formatted
RaisedCodes ==
    { error_codes.UNAUTHORIZED, error_codes.FORBIDDEN, error_codes.NOT_FOUND_ERROR,
      error_codes.SYSTEM_ERROR, error_codes.CONFLICT_ERROR,
      format(error_codes.INVALID_ARGS, Msg("system"), FALSE) }

NoCode == [code |-> "", message |-> "", status_code |-> 0]

Exception(classes, case, err) ==
    [ classes |-> classes, detail |-> case.detail, serializer |-> case.serializer,
      code |-> err.code, message |-> err.message, status_code |-> err.status_code ]

\* the exceptions Python can build: a ValidationError has a validation detail,
\* a CodeException a code, and nothing else has either
WellFormed(e) ==
    /\ ("ValidationError" \in e.classes) <=>
           ([detail |-> e.detail, serializer |-> e.serializer] \in ValidationCases)
    /\ ("CodeException" \in e.classes) <=> (e.code # "")

Exceptions ==
    { e \in { Exception(c, v, k) :
                 c \in ClassSets,
                 v \in ValidationCases \cup PlainCases,
                 k \in RaisedCodes \cup {NoCode} } : WellFormed(e) }

NoException == Exception({}, [detail |-> Msg(""), serializer |-> NoSerializer], NoCode)

(***************************************************************************)
(* AppExceptionMiddleware                                                  *)
(***************************************************************************)
_is_open_api_request(req) == Contains(req.path, OpenMarker)

\* process_request without its test of the path: English for every request
process_request_result_unconditional(req, lang) ==
    [ language |-> EN,
      request  |-> [req EXCEPT !.LANGUAGE_CODE = get_language(EN)],
      effects  |-> <<"translation.activate">> ]

\* process_request: the thread's language and the request after it
process_request_result(req, lang) ==
    IF _is_open_api_request(req)
    THEN [ language |-> EN,
           request  |-> [req EXCEPT !.LANGUAGE_CODE = get_language(EN)],
           effects  |-> <<"translation.activate">> ]
    ELSE [ language |-> lang, request |-> req, effects |-> <<>> ]

Return(err, effects) == [kind |-> "error", error |-> err, effects |-> effects]

ReturnNone == [kind |-> "none", effects |-> <<>>]

Raise(name, effects) == [kind |-> "raise", exc |-> name, effects |-> effects]

\* the CodeException branch without its set_rollback()
code_exception_effects_no_rollback == <<"log_api_error_trace">>

\* the CodeException branch: set_rollback(), then log_api_error_trace(request)
code_exception_effects == <<"set_rollback", "log_api_error_trace">>

_exception_to_error(req, e) ==
    IF isinstance(e, {"NotAuthenticated", "AuthenticationFailed"})
    THEN Return(error_codes.UNAUTHORIZED, <<>>)
    ELSE IF isinstance(e, {"PermissionDenied"})
    THEN Return(error_codes.FORBIDDEN, <<>>)
    ELSE IF isinstance(e, {"MethodNotAllowed"})
    THEN Return(format(error_codes.METHOD_NOT_ALLOWED, e.detail, FALSE), <<>>)
    ELSE IF isinstance(e, {"ParseError"})
    THEN Return(format(error_codes.JSON_FORMAT_ERROR, e.detail, FALSE), <<>>)
    ELSE IF isinstance(e, {"ValidationError"})
    THEN IF _is_open_api_request(req)
         THEN Return(format(error_codes.VALIDATE_ERROR, Msg(json_dumps(e.detail)), TRUE), <<>>)
         ELSE LET line == _one_line_error(e.detail, e.serializer)
              IN  IF line.t = "raise" THEN Raise(line.exc, <<>>)
                  ELSE Return(format(error_codes.VALIDATE_ERROR, line, FALSE), <<>>)
    ELSE IF isinstance(e, {"CodeException"})
    THEN Return(e, code_exception_effects)
    ELSE ReturnNone

\* the branch for an exception nobody expected without capture_exception(exc)
unexpected_effects_unreported == <<"logger.error", "log_api_error_trace">>

\* the side effects of the branch for an exception nobody expected
unexpected_effects == <<"logger.error", "log_api_error_trace", "capture_exception">>

\* the status with the test of ignore_errors dropped: 200 for every open-API error
response_status_always_200(req, err) ==
    IF _is_open_api_request(req) THEN HTTP_200_OK ELSE err.status_code

\* the status of the outgoing error response
response_status(req, err) ==
    IF _is_open_api_request(req) /\ ~is_ignored_error(err)
    THEN HTTP_200_OK
    ELSE err.status_code

Response(body, status) == [kind |-> "Response", status |-> status, data |-> body]

\* process_exception returned None: no response of this middleware
NoResponse == [kind |-> "None"]

\* process_exception itself raised
RaisedResponse(name) == [kind |-> "raise", exc |-> name]

NoError == [kind |-> "none"]

process_exception_result(req, e) ==
    IF isinstance(e, {"Http404"})
    THEN [error |-> NoError, response |-> NoResponse, effects |-> <<>>]
    ELSE LET r == _exception_to_error(req, e)
         IN  IF r.kind = "raise"
             THEN [error |-> NoError, response |-> RaisedResponse(r.exc), effects |-> r.effects]
             ELSE LET err == IF r.kind = "none" THEN error_codes.SYSTEM_ERROR ELSE r.error
                      eff == IF r.kind = "none" THEN unexpected_effects ELSE r.effects
                  IN  [ error    |-> [kind |-> "error", error |-> err],
                        response |-> Response(as_json(err), response_status(req, err)),
                        effects  |-> eff \o <<"Response">> ]

(***************************************************************************)
(* The collaborators of the views: AuthorizationTrans, the policy store    *)
(* and AuthViewMixin.grant_or_revoke.                                      *)
(***************************************************************************)
ActionIds == {"view", "edit"}

PolicyIds == {11, 12}

TheSubject == [type |-> "user", id |-> "alice"]

TheSystem == "bk_cmdb"

TheResources == <<[system |-> "bk_cmdb", type |-> "host", id |-> "123"]>>

Operates == {"grant", "revoke"}

ActionIdSeqs == UNION {[1..n -> ActionIds] : n \in 1..MaxActions}

SingleData ==
    { [ operate |-> o, subject |-> TheSubject, system |-> TheSystem, expired_at |-> 0,
        action |-> [id |-> a], resources |-> TheResources ] :
        o \in Operates, a \in ActionIds }

BatchData ==
    { [ operate |-> o, subject |-> TheSubject, system |-> TheSystem, expired_at |-> 0,
        actions |-> [i \in 1..Len(ids) |-> [id |-> ids[i]]], resources |-> TheResources ] :
        o \in Operates, ids \in ActionIdSeqs }

NoData == [operate |-> "none"]

PolicyDraft(system_id, action_id, resources, expired_at) ==
    [ system |-> system_id, action_id |-> action_id,
      resource_expressions |-> resources, expired_at |-> expired_at ]

to_policy_list_for_instance(system_id, action_id, resources, expired_at) ==
    <<PolicyDraft(system_id, action_id, resources, expired_at)>>

to_policy_list_for_path(system_id, action_id, resources, expired_at) ==
    <<PolicyDraft(system_id, action_id, resources, expired_at)>>

to_policy_list_for_instances(system_id, action_ids, resources, expired_at) ==
    [i \in 1..Len(action_ids) |-> PolicyDraft(system_id, action_ids[i], resources, expired_at)]

to_policy_list_for_paths(system_id, action_ids, resources, expired_at) ==
    [i \in 1..Len(action_ids) |-> PolicyDraft(system_id, action_ids[i], resources, expired_at)]

\* what the store can raise: a recognised domain failure or anything else
StoreFailures ==
    { Exception({"CodeException"}, [detail |-> Msg(""), serializer |-> NoSerializer],
                error_codes.CONFLICT_ERROR),
      Exception({}, [detail |-> Msg("connection reset"), serializer |-> NoSerializer],
                NoCode) }

\* what one call of the store's grant or revoke does
StoreOutcomes ==
    { [ok |-> TRUE, policy_id |-> p, failure |-> NoException] : p \in PolicyIds }
        \cup { [ok |-> FALSE, policy_id |-> 0, failure |-> e] : e \in StoreFailures }

StoreCall(operate, subject, draft, ok) ==
    [op |-> operate, subject |-> subject, action_id |-> draft.action_id, ok |-> ok]

StoredPolicy(policy_id, draft, subject) ==
    [ policy_id |-> policy_id, action_id |-> draft.action_id, subject |-> subject,
      expired_at |-> draft.expired_at ]

\* apply the drafts in order; stop at the first store call that fails
grant_or_revoke(operate, subject, policy_list, outcomes) ==
    LET failing == {i \in 1..Len(policy_list) : ~outcomes[i].ok}
        k == IF failing = {} THEN Len(policy_list)
             ELSE CHOOSE i \in failing : \A j \in failing : i <= j
        calls == [i \in 1..k |-> StoreCall(operate, subject, policy_list[i], outcomes[i].ok)]
    IN  IF failing = {}
        THEN [ kind |-> "ok", calls |-> calls, exc |-> NoException,
               policies |-> [i \in 1..Len(policy_list) |->
                   StoredPolicy(outcomes[i].policy_id, policy_list[i], subject)] ]
        ELSE [ kind |-> "raise", calls |-> calls, exc |-> outcomes[k].failure,
               policies |-> <<>> ]

(***************************************************************************)
(* The four views.  Each post is the whole handler: validate, translate,   *)
(* grant or revoke, set the audit context, respond.                        *)
(***************************************************************************)
\* the view raised: nothing of the handler after the raising call runs
ViewRaised(e, calls) ==
    [raised |-> TRUE, exc |-> e, store_calls |-> calls, effects |-> <<>>,
     response |-> NoResponse]

ViewReturned(body, calls) ==
    [raised |-> FALSE, exc |-> NoException, store_calls |-> calls,
     effects |-> <<"audit_context_setter">>, response |-> Response(body, HTTP_200_OK)]

\* Response({"policy_id": policies[0].policy_id})
single_response(stored) == [policy_id |-> stored[1].policy_id]

\* the batch response built from a dict keyed by action id: one entry per
\* distinct action, in the order of the ids
batch_response_by_action(stored) ==
    LET ids == {stored[i].action_id : i \in 1..Len(stored)}
        pick(a) == CHOOSE i \in 1..Len(stored) : stored[i].action_id = a
        RECURSIVE build(_)
        build(left) ==
            IF left = {} THEN <<>>
            ELSE LET a == CHOOSE x \in left : TRUE
                 IN  <<[action |-> [id |-> a], policy_id |-> stored[pick(a)].policy_id]>>
                         \o build(left \ {a})
    IN  build(ids)

\* Response([{"action": {"id": p.action_id}, "policy_id": p.policy_id} for p in policies])
batch_response(stored) ==
    [i \in 1..Len(stored) |->
        [action |-> [id |-> stored[i].action_id], policy_id |-> stored[i].policy_id]]

\* the tail of AuthInstanceView.post and AuthPathView.post
single_post_result(d, policy_list, outcomes) ==
    LET r == grant_or_revoke(d.operate, d.subject, policy_list, outcomes)
    IN  IF r.kind = "raise" THEN ViewRaised(r.exc, r.calls)
        ELSE ViewReturned(single_response(r.policies), r.calls)

\* the batch tail with the store's failure caught: it answers with what it has
batch_post_result_swallowing(d, policy_list, outcomes) ==
    LET r == grant_or_revoke(d.operate, d.subject, policy_list, outcomes)
    IN  ViewReturned(batch_response(r.policies), r.calls)

\* the tail of AuthBatchInstanceView.post and AuthBatchPathView.post
batch_post_result(d, policy_list, outcomes) ==
    LET r == grant_or_revoke(d.operate, d.subject, policy_list, outcomes)
    IN  IF r.kind = "raise" THEN ViewRaised(r.exc, r.calls)
        ELSE ViewReturned(batch_response(r.policies), r.calls)

action_ids_of(d) == [i \in 1..Len(d.actions) |-> d.actions[i].id]

ViewDone(d, r) ==
    /\ data' = d
    /\ store_calls' = r.store_calls
    /\ exc' = r.exc
    /\ response' = r.response
    /\ events' = events \o r.effects
    /\ pc' = IF r.raised THEN "raised" ELSE "returned"
    /\ UNCHANGED <<request, upstream, language, local_request, error>>
    /\ UNCHANGED olVars

\* serializer.is_valid(raise_exception=True) raised
InvalidBody ==
    \E e \in Exceptions :
        /\ e.classes = {"ValidationError"}
        /\ ViewDone(NoData, ViewRaised(e, <<>>))

AuthInstanceView_post ==
    /\ pc = "view"
    /\ request.view = "AuthInstanceView"
    /\ \/ InvalidBody
       \/ \E d \in SingleData, o \in [1..1 -> StoreOutcomes] :
            ViewDone(d, single_post_result(d,
                to_policy_list_for_instance(d.system, d.action.id, d.resources, d.expired_at), o))

AuthPathView_post ==
    /\ pc = "view"
    /\ request.view = "AuthPathView"
    /\ \/ InvalidBody
       \/ \E d \in SingleData, o \in [1..1 -> StoreOutcomes] :
            ViewDone(d, single_post_result(d,
                to_policy_list_for_path(d.system, d.action.id, d.resources, d.expired_at), o))

AuthBatchInstanceView_post ==
    /\ pc = "view"
    /\ request.view = "AuthBatchInstanceView"
    /\ \/ InvalidBody
       \/ \E d \in BatchData :
            \E o \in [1..Len(d.actions) -> StoreOutcomes] :
                ViewDone(d, batch_post_result(d,
                    to_policy_list_for_instances(d.system, action_ids_of(d), d.resources,
                                                 d.expired_at), o))

AuthBatchPathView_post ==
    /\ pc = "view"
    /\ request.view = "AuthBatchPathView"
    /\ \/ InvalidBody
       \/ \E d \in BatchData :
            \E o \in [1..Len(d.actions) -> StoreOutcomes] :
                ViewDone(d, batch_post_result(d,
                    to_policy_list_for_paths(d.system, action_ids_of(d), d.resources,
                                             d.expired_at), o))

\* any other view answers
other_view_returns ==
    /\ pc = "view"
    /\ request.view = "other"
    /\ response' = Response([result |-> TRUE], HTTP_200_OK)
    /\ pc' = "returned"
    /\ UNCHANGED <<request, upstream, language, local_request, exc, error, events, data,
                   store_calls>>
    /\ UNCHANGED olVars

\* any view raises: authentication, permission, parsing, the view's own code
view_raises ==
    /\ pc = "view"
    /\ \E e \in Exceptions : exc' = e
    /\ pc' = "raised"
    /\ UNCHANGED <<request, upstream, language, local_request, error, response, events,
                   data, store_calls>>
    /\ UNCHANGED olVars

(***************************************************************************)
(* The middlewares around the view.                                        *)
(***************************************************************************)
\* RequestProvider.__call__ up to self.get_response(request)
RequestProvider_enter ==
    /\ pc = "idle"
    /\ \E r \in Requests :
        /\ request' = r
        /\ local_request' = r
    /\ pc' = "entered"
    /\ UNCHANGED <<upstream, language, exc, error, response, events, data, store_calls>>
    /\ UNCHANGED olVars

\* a middleware ahead of AppExceptionMiddleware activates the caller's language,
\* when the deployment has one
locale_middleware ==
    /\ pc = "entered"
    /\ IF upstream
       THEN /\ language' = request.accept
            /\ request' = [request EXCEPT !.LANGUAGE_CODE = request.accept]
       ELSE UNCHANGED <<language, request>>
    /\ local_request' = request'
    /\ pc' = "negotiated"
    /\ UNCHANGED <<upstream, exc, error, response, events, data, store_calls>>
    /\ UNCHANGED olVars

process_request ==
    /\ pc = "negotiated"
    /\ LET r == process_request_result(request, language)
       IN  /\ language' = r.language
           /\ request' = r.request
           /\ events' = events \o r.effects
    /\ local_request' = request'
    /\ pc' = "view"
    /\ UNCHANGED <<upstream, exc, error, response, data, store_calls>>
    /\ UNCHANGED olVars

process_exception ==
    /\ pc = "raised"
    /\ LET r == process_exception_result(request, exc)
       IN  /\ error' = r.error
           /\ response' = r.response
           /\ events' = events \o r.effects
    /\ pc' = "handled"
    /\ UNCHANGED <<request, upstream, language, local_request, exc, data, store_calls>>
    /\ UNCHANGED olVars

\* RequestProvider.__call__ after self.get_response(request): local.release()
RequestProvider_exit ==
    /\ pc \in {"returned", "handled"}
    /\ pc' = "idle"
    /\ request' = NoRequest
    /\ local_request' = NoRequest
    /\ exc' = NoException
    /\ error' = NoError
    /\ response' = NoResponse
    /\ events' = <<>>
    /\ data' = NoData
    /\ store_calls' = <<>>
    /\ UNCHANGED <<upstream, language>>
    /\ UNCHANGED olVars

Init ==
    /\ pc = "idle"
    /\ request = NoRequest
    /\ upstream \in BOOLEAN
    /\ language = "None"
    /\ local_request = NoRequest
    /\ exc = NoException
    /\ error = NoError
    /\ response = NoResponse
    /\ events = <<>>
    /\ data = NoData
    /\ store_calls = <<>>
    /\ ol_pc = "off"
    /\ ol_exc = [detail |-> ExampleDetail, serializer |-> ExampleSerializer]
    /\ ol_result = Msg("")

Next ==
    \/ RequestProvider_enter
    \/ locale_middleware
    \/ process_request
    \/ AuthInstanceView_post
    \/ AuthPathView_post
    \/ AuthBatchInstanceView_post
    \/ AuthBatchPathView_post
    \/ other_view_returns
    \/ view_raises
    \/ process_exception
    \/ RequestProvider_exit

Spec == Init /\ [][Next]_vars

\* _one_line_error taken alone
InitOneLine ==
    /\ pc = "idle"
    /\ request = NoRequest
    /\ upstream = FALSE
    /\ language = "None"
    /\ local_request = NoRequest
    /\ exc = NoException
    /\ error = NoError
    /\ response = NoResponse
    /\ events = <<>>
    /\ data = NoData
    /\ store_calls = <<>>
    /\ OneLineInit

NextOneLine == OneLineCall

SpecOneLine == InitOneLine /\ [][NextOneLine]_vars

(***************************************************************************)
(* The claims.                                                             *)
(***************************************************************************)
InEvents(x) == \E i \in DOMAIN events : events[i] = x

Occurrences(x) == Cardinality({i \in DOMAIN events : events[i] = x})

Before(x, y) ==
    \A i, j \in DOMAIN events : (events[i] = x /\ events[j] = y) => i < j

OpenRequest == Contains(request.path, OpenMarker)

Serving == pc \in {"view", "raised", "handled", "returned"}

\* the categories of section 4.3, first match wins
FailureCategory(e) ==
    CASE "Http404" \in e.classes -> 1
      [] e.classes \cap {"NotAuthenticated", "AuthenticationFailed"} # {} -> 2
      [] "PermissionDenied" \in e.classes -> 3
      [] "MethodNotAllowed" \in e.classes -> 4
      [] "ParseError" \in e.classes -> 5
      [] "ValidationError" \in e.classes -> 6
      [] "CodeException" \in e.classes -> 7
      [] OTHER -> 8

ErrorResponse(code) == response.kind = "Response" /\ response.data.code = code

StatusPreservingCodes == {"UNAUTHORIZED", "FORBIDDEN", "NOT_FOUND_ERROR", "SYSTEM_ERROR"}

\* C1: an error response of process_exception has status 200 when the request is
\* an open-API request and the code is none of UNAUTHORIZED, FORBIDDEN, NOT_FOUND,
\* SYSTEM_ERROR, and the error's own status code otherwise; the body is the error
\* body either way.
C1_StatusCode ==
    (pc = "handled" /\ response.kind = "Response") =>
        /\ error.kind = "error"
        /\ response.data = [code |-> error.error.code, message |-> error.error.message]
        /\ response.status =
              IF OpenRequest /\ error.error.code \notin StatusPreservingCodes
              THEN 200
              ELSE error.error.status_code

C1_Witness ==
    /\ pc = "handled"
    /\ OpenRequest
    /\ ErrorResponse("VALIDATE_ERROR")
    /\ response.status = 200
    /\ error.error.status_code = 400

\* C2: classification is total and first-match-wins: not-found passes through with
\* no uniform response, then UNAUTHORIZED, FORBIDDEN, METHOD_NOT_ALLOWED with the
\* detail, JSON_FORMAT_ERROR with the detail, VALIDATE_ERROR, the domain failure
\* itself, and SYSTEM_ERROR for everything else.
C2_Classification ==
    pc = "handled" =>
        CASE FailureCategory(exc) = 1 -> response.kind = "None"
          [] FailureCategory(exc) = 2 -> ErrorResponse("UNAUTHORIZED")
          [] FailureCategory(exc) = 3 -> ErrorResponse("FORBIDDEN")
          [] FailureCategory(exc) = 4 ->
                /\ ErrorResponse("METHOD_NOT_ALLOWED")
                /\ response.data.message = "method not allowed: " \o Str(exc.detail)
          [] FailureCategory(exc) = 5 ->
                /\ ErrorResponse("JSON_FORMAT_ERROR")
                /\ response.data.message = "json format error: " \o Str(exc.detail)
          [] FailureCategory(exc) = 6 -> ErrorResponse("VALIDATE_ERROR")
          [] FailureCategory(exc) = 7 ->
                /\ response.kind = "Response"
                /\ response.data = [code |-> exc.code, message |-> exc.message]
          [] FailureCategory(exc) = 8 -> ErrorResponse("SYSTEM_ERROR")

\* C2, aside: the same mapping holds of every failure whose handling does not
\* end in the AttributeError of _one_line_error.
C2_ClassificationUnlessRaised ==
    response.kind # "raise" => C2_Classification

\* the extraction as section 4.3 describes it: descend into the first offending
\* field, return a non-field-level message as is, else "<label or key>: <message>"
RECURSIVE ClaimedLine(_, _)
ClaimedLine(detail, schema) ==
    IF detail.t = "list" THEN detail.items[1]
    ELSE
    LET key    == detail.items[1].k
        first  == detail.items[1].v
        msg    == IF first.t = "list" THEN first.items[1] ELSE first
        nested == first.t = "dict" /\ schema.k # "none"
        declared == schema.k = "Serializer" /\ key \in DOMAIN schema.fields
    IN  IF nested /\ declared /\ schema.fields[key].k = "ListField"
        THEN ClaimedLine(ValidationError(first.items[1].v), schema.fields[key].child)
        ELSE IF nested /\ declared /\ schema.fields[key].k = "Serializer"
        THEN ClaimedLine(ValidationError(first), schema.fields[key])
        ELSE IF nested /\ schema.k = "ListField"
        THEN ClaimedLine(ValidationError(first), schema.child)
        ELSE IF key = NON_FIELD_ERRORS_KEY THEN msg
        ELSE IF declared THEN Msg(schema.fields[key].label \o ": " \o Str(msg))
        ELSE Msg(key \o ": " \o Str(msg))

\* C5: _one_line_error descends into the first offending field and returns
\* "<label>: <message>" with the registered label when there is one and the raw
\* key otherwise, and a non-field-level message as is.
C5_OneLineError ==
    ol_pc = "returned" => ol_result = ClaimedLine(ol_exc.detail, ol_exc.serializer)

\* C5, aside: the extraction is the claimed one whenever it returns at all.
C5_OneLineErrorUnlessRaised ==
    (ol_pc = "returned" /\ ol_result.t # "raise") =>
        ol_result = ClaimedLine(ol_exc.detail, ol_exc.serializer)

\* C5, aside: the example of section 8.
C5_Example ==
    (/\ ol_pc = "returned"
     /\ ol_exc.detail = ExampleDetail
     /\ ol_exc.serializer.k = "Serializer"
     /\ "resources" \in DOMAIN ol_exc.serializer.fields
     /\ ol_exc.serializer.fields.resources \in ListFields
     /\ ol_exc.serializer.fields.resources.child \in ChildSerializers) =>
        ol_result = Msg(ol_exc.serializer.fields.resources.child.fields.id.label
                            \o ": required")

\* C6: an unexpected failure is answered with the generic SYSTEM_ERROR body, and
\* the error log and the notification of the error reporter happen if and only
\* if the failure is unexpected.
C6_Unexpected ==
    /\ (pc = "handled" /\ FailureCategory(exc) = 8) =>
          /\ response.kind = "Response"
          /\ response.data = [code |-> "SYSTEM_ERROR", message |-> "system error"]
          /\ InEvents("logger.error")
          /\ InEvents("capture_exception")
    /\ (InEvents("logger.error") \/ InEvents("capture_exception")) =>
          (pc = "handled" /\ FailureCategory(exc) = 8)

C6_Witness ==
    /\ pc = "handled"
    /\ FailureCategory(exc) = 8
    /\ exc.detail = Msg("connection reset")
    /\ InEvents("capture_exception")
    /\ response.status = 500

\* C7: a field-validation failure is answered with VALIDATE_ERROR for both caller
\* classes; the message is the serialized detail for an open-API request and the
\* extracted single line for an internal one.
C7_ValidateError ==
    (pc = "handled" /\ FailureCategory(exc) = 6) =>
        /\ ErrorResponse("VALIDATE_ERROR")
        /\ response.data.message =
              IF OpenRequest THEN json_dumps(exc.detail)
              ELSE "validate error: " \o Str(ClaimedLine(exc.detail, exc.serializer))

\* C7, aside: the same holds whenever the handling does not end in the
\* AttributeError of _one_line_error.
C7_ValidateErrorUnlessRaised ==
    response.kind # "raise" => C7_ValidateError

\* C8: for an open-API request the thread's language is English from
\* process_request on, whatever the caller's language, activated exactly once and
\* before the failure is classified; process_request leaves the language of any
\* other request alone.
C8_EnglishForOpenApi ==
    [][ /\ (Serving' /\ OpenRequest') =>
              /\ language' = "en"
              /\ request'.LANGUAGE_CODE = "en"
              /\ Occurrences("translation.activate")' = 1
              /\ Before("translation.activate", "Response")'
        /\ (pc = "negotiated" /\ pc' = "view" /\ ~OpenRequest) =>
              /\ language' = language
              /\ request' = request
              /\ ~InEvents("translation.activate")' ]_vars

C8_Witness ==
    /\ pc = "handled"
    /\ OpenRequest
    /\ upstream
    /\ request.accept = "fr"
    /\ language = "en"
    /\ response.kind = "Response"

\* the language the caller is served in when nothing forces another
CallerLanguage == IF upstream THEN request.accept ELSE LANGUAGE_CODE

\* C9: nothing of a request is visible to another: while a request is served,
\* local.request is that request and, unless it is an open-API request, the
\* thread's language is its caller's, also after an open-API request.
C9_Isolation ==
    Serving =>
        /\ local_request = request
        /\ ~OpenRequest => get_language(language) = CallerLanguage

\* C10: a recognised domain failure is answered with its own code and message,
\* after set_rollback and the debug trace, for open-API and internal requests
\* alike.
C10_DomainFailure ==
    (pc = "handled" /\ FailureCategory(exc) = 7) =>
        /\ response.kind = "Response"
        /\ response.data = [code |-> exc.code, message |-> exc.message]
        /\ Occurrences("set_rollback") = 1
        /\ Occurrences("log_api_error_trace") = 1
        /\ Before("set_rollback", "Response")
        /\ Before("log_api_error_trace", "Response")

C10_Witness ==
    /\ pc = "handled"
    /\ FailureCategory(exc) = 7
    /\ exc.code = "INVALID_ARGS"
    /\ ~OpenRequest
    /\ response.status = 400
    /\ InEvents("set_rollback")

\* C9, aside: with a middleware upstream that activates the caller's language
\* on every request, the isolation holds.
C9_IsolationWithUpstream == upstream => C9_Isolation

BatchViews == {"AuthBatchInstanceView", "AuthBatchPathView"}

AuthorizationViews == BatchViews \cup {"AuthInstanceView", "AuthPathView"}

\* the action ids of the request being served, in request order
RequestedActionIds ==
    IF request.view \in BatchViews
    THEN [i \in 1..Len(data.actions) |-> data.actions[i].id]
    ELSE <<data.action.id>>

\* C3: a success response of a batch endpoint is a list with one
\* {action: {id}, policy_id} entry per requested action, the action ids in
\* request order, for grant and for revoke.
C3_BatchOrder ==
    (pc = "returned" /\ request.view \in BatchViews) =>
        /\ response.kind = "Response"
        /\ DOMAIN response.data = 1..Len(data.actions)
        /\ \A i \in 1..Len(data.actions) :
              /\ DOMAIN response.data[i] = {"action", "policy_id"}
              /\ response.data[i].action = [id |-> data.actions[i].id]
              /\ response.data[i].policy_id \in PolicyIds

C3_Witness ==
    /\ pc = "returned"
    /\ request.view = "AuthBatchPathView"
    /\ data.operate = "revoke"
    /\ Len(data.actions) = 2
    /\ data.actions[1].id = "view"
    /\ data.actions[2].id = "edit"
    /\ response.data[1].action.id = "view"
    /\ response.data[2].action.id = "edit"
    /\ response.data[1].policy_id # response.data[2].policy_id

\* C4: in the four grant/revoke endpoints a failed store call means no success
\* response and no audit context, and the failure goes to the error classifier; a
\* success response means every draft of the request was applied.
C4_AtomicReporting ==
    /\ (Serving /\ \E i \in DOMAIN store_calls : ~store_calls[i].ok) =>
          /\ request.view \in AuthorizationViews
          /\ pc \in {"raised", "handled"}
          /\ exc \in StoreFailures
          /\ ~InEvents("audit_context_setter")
          /\ pc = "raised" => response.kind = "None"
          /\ (pc = "handled" /\ response.kind = "Response") =>
                DOMAIN response.data = {"code", "message"}
    /\ (pc = "returned" /\ request.view \in AuthorizationViews) =>
          /\ InEvents("audit_context_setter")
          /\ Len(store_calls) = Len(RequestedActionIds)
          /\ \A i \in DOMAIN store_calls :
                /\ store_calls[i].ok
                /\ store_calls[i].op = data.operate
                /\ store_calls[i].action_id = RequestedActionIds[i]

C4_Witness ==
    /\ pc = "handled"
    /\ request.view = "AuthBatchInstanceView"
    /\ Len(store_calls) = 2
    /\ store_calls[1].ok
    /\ ~store_calls[2].ok
    /\ response.kind = "Response"
    /\ response.data.code = "CONFLICT_ERROR"

====
